---- MODULE Spec2Model ----
(***************************************************************************)
(* PERMANOVA (skbio/stats/distance/_permanova.py): the pseudo-F statistic  *)
(* of a distance matrix and a grouping, and its permutation test.          *)
(*                                                                         *)
(* Floating-point values are modelled as exact rationals extended with    *)
(* the IEEE specials +inf, -inf and NaN that numpy produces on a division  *)
(* by zero (numpy warns, it does not raise).  Rounding is not modelled.    *)
(* Objects are numbered 0..N-1 as in the code; sequences are 1-based.      *)
(***************************************************************************)
EXTENDS Integers, Sequences, FiniteSets, TLC

(* ---- bounds of the model ---- *)
MaxN == 4
MaxDist == 1
MaxLabels == 3
MaxPerms == 2
ScenarioPerms == 12

(***************************************************************************)
(* Floating-point values                                                   *)
(***************************************************************************)
Abs(x) == IF x < 0 THEN -x ELSE x

RECURSIVE GCD(_, _)
GCD(a, b) == IF b = 0 THEN a ELSE GCD(b, a % b)

NaN == [k |-> "nan", n |-> 0, d |-> 1]
PosInf == [k |-> "inf", n |-> 1, d |-> 1]
NegInf == [k |-> "inf", n |-> -1, d |-> 1]

\* the finite value n/d (d # 0), in lowest terms with a positive denominator
Rat(n, d) ==
    LET g == GCD(Abs(n), Abs(d))
        s == IF d < 0 THEN -1 ELSE 1
    IN  [k |-> "fin", n |-> (s * n) \div g, d |-> Abs(d) \div g]

Flt(n) == Rat(n, 1)

Sign(x) == IF x.n > 0 THEN 1 ELSE IF x.n < 0 THEN -1 ELSE 0

IsFinite(x) == x.k = "fin"

FNeg(x) == [x EXCEPT !.n = -x.n]

\* x + y
FAdd(x, y) ==
    IF x.k = "nan" \/ y.k = "nan" THEN NaN
    ELSE IF x.k = "inf" /\ y.k = "inf" THEN (IF x.n = y.n THEN x ELSE NaN)
    ELSE IF x.k = "inf" THEN x
    ELSE IF y.k = "inf" THEN y
    ELSE Rat(x.n * y.d + y.n * x.d, x.d * y.d)

FSub(x, y) == FAdd(x, FNeg(y))

\* x / y; a zero divisor gives an infinity of the dividend's sign, 0/0 gives NaN
FDiv(x, y) ==
    IF x.k = "nan" \/ y.k = "nan" THEN NaN
    ELSE IF x.k = "inf" /\ y.k = "inf" THEN NaN
    ELSE IF x.k = "inf" THEN (IF Sign(x) * Sign(y) < 0 THEN NegInf ELSE PosInf)
    ELSE IF y.k = "inf" THEN Flt(0)
    ELSE IF y.n = 0 THEN (IF x.n > 0 THEN PosInf ELSE IF x.n < 0 THEN NegInf ELSE NaN)
    ELSE Rat(x.n * y.d, x.d * y.n)

\* x >= y; every comparison with NaN is false
FGE(x, y) ==
    IF x.k = "nan" \/ y.k = "nan" THEN FALSE
    ELSE IF x.k = "inf" /\ x.n > 0 THEN TRUE
    ELSE IF y.k = "inf" /\ y.n < 0 THEN TRUE
    ELSE IF x.k = "inf" \/ y.k = "inf" THEN FALSE
    ELSE x.n * y.d >= y.n * x.d

FGT(x, y) == FGE(x, y) /\ x # y

(***************************************************************************)
(* Helpers on sequences                                                    *)
(***************************************************************************)
Range(s) == {s[k] : k \in DOMAIN s}

\* sum of the squares of the elements of s, as numpy's (s ** 2).sum()
RECURSIVE SumSq(_)
SumSq(s) == IF s = <<>> THEN 0 ELSE s[1] * s[1] + SumSq(Tail(s))

\* the subsequence of s at the positions where mask is TRUE (boolean indexing)
RECURSIVE Masked(_, _)
Masked(s, mask) ==
    IF s = <<>> THEN <<>>
    ELSE (IF mask[1] THEN <<s[1]>> ELSE <<>>) \o Masked(Tail(s), Tail(mask))

(***************************************************************************)
(* _preprocess_input, as the specification describes it                    *)
(***************************************************************************)
\* the pairs (r, c), r < c, of 0..N-1 in row-major order
RECURSIVE TriuPairs(_, _, _)
TriuPairs(N, r, c) ==
    IF r >= N - 1 THEN <<>>
    ELSE IF c >= N THEN TriuPairs(N, r + 1, r + 2)
    ELSE <<<<r, c>>>> \o TriuPairs(N, r, c + 1)

\* (rows, cols): the index of the upper triangle without the diagonal
TriuIndices(N) ==
    LET pairs == TriuPairs(N, 0, 1)
    IN  << [k \in DOMAIN pairs |-> pairs[k][1]], [k \in DOMAIN pairs |-> pairs[k][2]] >>

\* the upper triangle of dm flattened, aligned with TriuIndices
CondensedForm(dm, N) ==
    LET pairs == TriuPairs(N, 0, 1)
    IN  [k \in DOMAIN pairs |-> dm[pairs[k]]]

\* labels coded 0..num_groups-1 (here by rank among the labels present)
EncodeGrouping(labels) ==
    [x \in 0..(Len(labels) - 1) |->
        Cardinality({m \in Range(labels) : m < labels[x + 1]})]

PreprocessOk(N, labels) ==
    /\ Len(labels) = N
    /\ Cardinality(Range(labels)) >= 2

PreprocessInput(dm, N, labels) ==
    [sample_size |-> N,
     num_groups  |-> Cardinality(Range(labels)),
     grouping    |-> EncodeGrouping(labels),
     tri_idxs    |-> TriuIndices(N),
     distances   |-> CondensedForm(dm, N)]

(***************************************************************************)
(* _index_combinations and _compute_f_stat                                 *)
(***************************************************************************)
\* np.tile(indices, reps): the whole sequence, reps times over
Tile(indices, reps) ==
    [k \in 1..(Len(indices) * reps) |-> indices[((k - 1) % Len(indices)) + 1]]

\* np.repeat(indices, reps): each element reps times in a row
Repeat(indices, reps) ==
    [k \in 1..(Len(indices) * reps) |-> indices[((k - 1) \div reps) + 1]]

\* variant: tile on both sides, which pairs each object only with itself
IndexCombinationsTileTwice(indices) ==
    << Tile(indices, Len(indices)), Tile(indices, Len(indices)) >>

IndexCombinations(indices) ==
    << Tile(indices, Len(indices)), Repeat(indices, Len(indices)) >>

\* np.where(grouping == group_idx)[0]: the matching objects, ascending
RECURSIVE WhereFrom(_, _, _)
WhereFrom(grouping, group_idx, x) ==
    IF x \notin DOMAIN grouping THEN <<>>
    ELSE (IF grouping[x] = group_idx THEN <<x>> ELSE <<>>)
         \o WhereFrom(grouping, group_idx, x + 1)

Where(grouping, group_idx) == WhereFrom(grouping, group_idx, 0)

\* matrix[idx] = v for an index (rows, cols)
AssignAt(matrix, idx, v) ==
    LET cells == {<<idx[1][k], idx[2][k]>> : k \in DOMAIN idx[1]}
    IN  [cell \in DOMAIN matrix |-> IF cell \in cells THEN v ELSE matrix[cell]]

RECURSIVE GroupingMatrixLoop(_, _, _, _)
GroupingMatrixLoop(matrix, num_groups, grouping, group_idx) ==
    IF group_idx >= num_groups THEN matrix
    ELSE GroupingMatrixLoop(
            AssignAt(matrix, IndexCombinations(Where(grouping, group_idx)), group_idx),
            num_groups, grouping, group_idx + 1)

GroupingMatrix(sample_size, num_groups, grouping) ==
    GroupingMatrixLoop(
        [cell \in (0..(sample_size - 1)) \X (0..(sample_size - 1)) |-> -1],
        num_groups, grouping, 0)

\* grouping_matrix[tri_idxs]
RECURSIVE TakeAt(_, _, _)
TakeAt(matrix, rows, cols) ==
    IF rows = <<>> THEN <<>>
    ELSE <<matrix[<<Head(rows), Head(cols)>>]>> \o TakeAt(matrix, Tail(rows), Tail(cols))

GroupingTri(grouping_matrix, tri_idxs) == TakeAt(grouping_matrix, tri_idxs[1], tri_idxs[2])

\* one term of s_W: (distances[grouping_tri == i] ** 2).sum() / group_sizes[i]
\* variant: the sum is not divided by the group size
SWTermUnweighted(i, distances, group_sizes, grouping_tri) ==
    Flt(SumSq(Masked(distances, [k \in DOMAIN grouping_tri |-> grouping_tri[k] = i])))

\* variant: the sum is divided by the square of the group size
SWTermSizeSquared(i, distances, group_sizes, grouping_tri) ==
    FDiv(Flt(SumSq(Masked(distances, [k \in DOMAIN grouping_tri |-> grouping_tri[k] = i]))),
         Flt(group_sizes[i] * group_sizes[i]))

SWTerm(i, distances, group_sizes, grouping_tri) ==
    FDiv(Flt(SumSq(Masked(distances, [k \in DOMAIN grouping_tri |-> grouping_tri[k] = i]))),
         Flt(group_sizes[i]))

RECURSIVE SWLoop(_, _, _, _, _, _)
SWLoop(s_W, i, num_groups, distances, group_sizes, grouping_tri) ==
    IF i >= num_groups THEN s_W
    ELSE SWLoop(FAdd(s_W, SWTerm(i, distances, group_sizes, grouping_tri)),
                i + 1, num_groups, distances, group_sizes, grouping_tri)

\* s_W as _compute_f_stat accumulates it
WithinSS(sample_size, num_groups, tri_idxs, distances, group_sizes, grouping) ==
    SWLoop(Flt(0), 0, num_groups, distances, group_sizes,
           GroupingTri(GroupingMatrix(sample_size, num_groups, grouping), tri_idxs))

\* variant: s_A = s_W - s_T
FRatioSwapped(sample_size, num_groups, s_T, s_W) ==
    LET s_A == FSub(s_W, s_T)
    IN  FDiv(FDiv(s_A, Flt(num_groups - 1)), FDiv(s_W, Flt(sample_size - num_groups)))

\* variant: s_W is divided by sample_size - 1
FRatioTotalDf(sample_size, num_groups, s_T, s_W) ==
    LET s_A == FSub(s_T, s_W)
    IN  FDiv(FDiv(s_A, Flt(num_groups - 1)), FDiv(s_W, Flt(sample_size - 1)))

FRatio(sample_size, num_groups, s_T, s_W) ==
    LET s_A == FSub(s_T, s_W)
    IN  FDiv(FDiv(s_A, Flt(num_groups - 1)), FDiv(s_W, Flt(sample_size - num_groups)))

ComputeFStat(sample_size, num_groups, tri_idxs, distances, group_sizes, s_T, grouping) ==
    FRatio(sample_size, num_groups, s_T,
           WithinSS(sample_size, num_groups, tri_idxs, distances, group_sizes, grouping))

(***************************************************************************)
(* permanova: the context computed once per call                           *)
(***************************************************************************)
MaxOf(S) == CHOOSE m \in S : \A x \in S : x <= m

\* np.bincount(grouping)
\* variant: counts the objects coded c or less
BincountCumulative(grouping) ==
    [c \in 0..MaxOf(Range(grouping)) |-> Cardinality({x \in DOMAIN grouping : grouping[x] <= c})]

\* variant: the counts are shifted by one code
BincountFromOne(grouping) ==
    [c \in 0..MaxOf(Range(grouping)) |-> Cardinality({x \in DOMAIN grouping : grouping[x] = c + 1})]

Bincount(grouping) ==
    [c \in 0..MaxOf(Range(grouping)) |-> Cardinality({x \in DOMAIN grouping : grouping[x] = c})]

\* (distances ** 2).sum() / sample_size
\* variant: divides by sample_size squared
TotalSSOverSquare(distances, sample_size) ==
    FDiv(Flt(SumSq(distances)), Flt(sample_size * sample_size))

TotalSS(distances, sample_size) == FDiv(Flt(SumSq(distances)), Flt(sample_size))

(***************************************************************************)
(* _run_stat_method and _build_results, as the specification describes     *)
(* them                                                                    *)
(***************************************************************************)
\* the groupings a random permutation of the codes can produce
Reorderings(grouping) ==
    {[x \in DOMAIN grouping |-> grouping[pi[x]]] : pi \in Permutations(DOMAIN grouping)}

\* the parameter check: a negative permutation count is an error
\* variant: the check is missing
RunStatRejectsNever(permutations) == FALSE

RunStatRejects(permutations) == permutations < 0

\* (count + 1) / (permutations + 1), NaN without permutations
\* variant: count / permutations, without the +1 on either side
PValueNoSmoothing(count, permutations) ==
    IF permutations > 0 THEN Rat(count, permutations) ELSE NaN

PValue(count, permutations) ==
    IF permutations > 0 THEN Rat(count + 1, permutations + 1) ELSE NaN

BuildResults(method_name, statistic_name, sample_size, num_groups, stat, p, perms) ==
    [method_name |-> method_name, statistic_name |-> statistic_name,
     sample_size |-> sample_size, num_groups |-> num_groups,
     statistic |-> stat, p_value |-> p, permutations |-> perms]

(***************************************************************************)
(* State: one call of permanova                                            *)
(***************************************************************************)
VARIABLES
    pc,               \* position in permanova / _run_stat_method
    distance_matrix,  \* argument: symmetric, zero diagonal, on (0..N-1) x (0..N-1)
    num_objects,      \* distance_matrix.shape[0]
    raw_grouping,     \* argument: the labels, one per object
    permutations,     \* argument
    sample_size, num_groups, grouping, tri_idxs, distances,  \* of _preprocess_input
    group_sizes, s_T, \* the context of lines 98-99
    stat,             \* the observed statistic
    i, count,         \* trials done, trials with perm_stat >= stat
    perm_grouping, perm_stat,  \* the last trial
    calls,            \* number of calls of _compute_f_stat so far
    p_value, result

vars == << pc, distance_matrix, num_objects, raw_grouping, permutations,
           sample_size, num_groups, grouping, tri_idxs, distances,
           group_sizes, s_T, stat, i, count, perm_grouping, perm_stat,
           calls, p_value, result >>

inputs == << distance_matrix, num_objects, raw_grouping, permutations >>
preprocessed == << sample_size, num_groups, grouping, tri_idxs, distances >>
context == << group_sizes, s_T >>
trial == << i, count, perm_grouping, perm_stat >>

None == [k |-> "none", n |-> 0, d |-> 1]

\* the symmetric zero-diagonal matrix with upper triangle u
Symmetric(N, u) ==
    [cell \in (0..(N - 1)) \X (0..(N - 1)) |->
        IF cell[1] < cell[2] THEN u[cell]
        ELSE IF cell[1] > cell[2] THEN u[<<cell[2], cell[1]>>]
        ELSE 0]

UpperCells(N) == {cell \in (0..(N - 1)) \X (0..(N - 1)) : cell[1] < cell[2]}

Blank ==
    /\ pc = "start"
    /\ sample_size = 0 /\ num_groups = 0 /\ grouping = <<>>
    /\ tri_idxs = << <<>>, <<>> >> /\ distances = <<>>
    /\ group_sizes = <<>> /\ s_T = None
    /\ stat = None /\ i = 0 /\ count = 0
    /\ perm_grouping = <<>> /\ perm_stat = None
    /\ calls = 0 /\ p_value = None /\ result = None

\* Every distance matrix over 0..MaxDist is drawn, so the labels are drawn in
\* non-decreasing order only: any other pair (matrix, grouping) is one of
\* these with the objects renumbered.  The trials reorder the codes freely.
NonDecreasing(labels) == \A k \in 1..(Len(labels) - 1) : labels[k] <= labels[k + 1]

Init ==
    /\ num_objects \in 2..MaxN
    /\ \E u \in [UpperCells(num_objects) -> 0..MaxDist] :
            distance_matrix = Symmetric(num_objects, u)
    /\ \E L \in {num_objects - 1, num_objects} :
            /\ raw_grouping \in [1..L -> 1..MaxLabels]
            /\ NonDecreasing(raw_grouping)
    /\ permutations \in -1..MaxPerms
    /\ Blank

\* the concrete scenario: [A, A, B, B], 1 within the groups, 10 between them
InitScenario ==
    /\ num_objects = 4
    /\ distance_matrix = Symmetric(4,
            [cell \in UpperCells(4) |->
                IF cell = <<0, 1>> \/ cell = <<2, 3>> THEN 1 ELSE 10])
    /\ raw_grouping = <<1, 1, 2, 2>>
    /\ permutations \in 0..ScenarioPerms
    /\ Blank

\* test_stat_function: _compute_f_stat with the context bound (lines 101-102)
TestStatFunction(g) ==
    ComputeFStat(sample_size, num_groups, tri_idxs, distances, group_sizes, s_T, g)

\* lines 94-95: _preprocess_input succeeds
Preprocess ==
    /\ pc = "start"
    /\ PreprocessOk(num_objects, raw_grouping)
    /\ LET r == PreprocessInput(distance_matrix, num_objects, raw_grouping)
       IN  /\ sample_size' = r.sample_size
           /\ num_groups' = r.num_groups
           /\ grouping' = r.grouping
           /\ tri_idxs' = r.tri_idxs
           /\ distances' = r.distances
    /\ pc' = "preprocessed"
    /\ UNCHANGED << inputs, context, stat, trial, calls, p_value, result >>

\* lines 94-95: _preprocess_input raises
PreprocessError ==
    /\ pc = "start"
    /\ ~PreprocessOk(num_objects, raw_grouping)
    /\ pc' = "error"
    /\ UNCHANGED << inputs, preprocessed, context, stat, trial, calls, p_value, result >>

\* lines 97-102
Context ==
    /\ pc = "preprocessed"
    /\ group_sizes' = Bincount(grouping)
    /\ s_T' = TotalSS(distances, sample_size)
    /\ pc' = "ready"
    /\ UNCHANGED << inputs, preprocessed, stat, trial, calls, p_value, result >>

\* line 103, _run_stat_method: a negative permutation count is rejected
RunStatError ==
    /\ pc = "ready"
    /\ RunStatRejects(permutations)
    /\ pc' = "error"
    /\ UNCHANGED << inputs, preprocessed, context, stat, trial, calls, p_value, result >>

\* line 103, _run_stat_method: the observed statistic
RunStatObserved ==
    /\ pc = "ready"
    /\ ~RunStatRejects(permutations)
    /\ stat' = TestStatFunction(grouping)
    /\ calls' = calls + 1
    /\ pc' = "trials"
    /\ UNCHANGED << inputs, preprocessed, context, trial, p_value, result >>

\* line 103, _run_stat_method: one permutation trial
Trial ==
    /\ pc = "trials"
    /\ i < permutations
    /\ \E g \in Reorderings(grouping) :
        /\ perm_grouping' = g
        /\ perm_stat' = TestStatFunction(g)
        /\ count' = count + (IF FGE(perm_stat', stat) THEN 1 ELSE 0)
    /\ i' = i + 1
    /\ calls' = calls + 1
    /\ UNCHANGED << pc, inputs, preprocessed, context, stat, p_value, result >>

\* line 103, _run_stat_method returns; lines 106-107
Finish ==
    /\ pc = "trials"
    /\ i >= permutations
    /\ p_value' = PValue(count, permutations)
    /\ result' = BuildResults("PERMANOVA", "pseudo-F", sample_size, num_groups,
                              stat, PValue(count, permutations), permutations)
    /\ pc' = "done"
    /\ UNCHANGED << inputs, preprocessed, context, stat, trial, calls >>

Next ==
    \/ Preprocess
    \/ PreprocessError
    \/ Context
    \/ RunStatError
    \/ RunStatObserved
    \/ Trial
    \/ Finish

Spec == Init /\ [][Next]_vars

\* the scenario's input is valid: no error path
NextScenario ==
    \/ Preprocess
    \/ Context
    \/ RunStatObserved
    \/ Trial
    \/ Finish

SpecScenario == InitScenario /\ [][NextScenario]_vars

(***************************************************************************)
(* Reference definitions for the properties: the statistic written from    *)
(* the distance matrix and the group memberships, without the grouping     *)
(* matrix                                                                  *)
(***************************************************************************)
Computed == pc \in {"trials", "done"}

Codes == 0..(num_groups - 1)

Members(g, c) == {x \in DOMAIN g : g[x] = c}

\* the unordered pairs of distinct objects both coded c
WithinPairs(g, c) == {cell \in UpperCells(sample_size) : g[cell[1]] = c /\ g[cell[2]] = c}

RECURSIVE SqSumPairs(_)
SqSumPairs(P) ==
    IF P = {} THEN 0
    ELSE LET cell == CHOOSE cell \in P : TRUE
         IN  distance_matrix[cell] * distance_matrix[cell] + SqSumPairs(P \ {cell})

DirectST == FDiv(Flt(SqSumPairs(UpperCells(sample_size))), Flt(sample_size))

RECURSIVE DirectSWFrom(_, _)
DirectSWFrom(g, c) ==
    IF c >= num_groups THEN Flt(0)
    ELSE FAdd(FDiv(Flt(SqSumPairs(WithinPairs(g, c))), Flt(Cardinality(Members(g, c)))),
              DirectSWFrom(g, c + 1))

DirectSW(g) == DirectSWFrom(g, 0)

DirectF(g) ==
    LET s_within == DirectSW(g)
    IN  FDiv(FDiv(FSub(DirectST, s_within), Flt(num_groups - 1)),
             FDiv(s_within, Flt(sample_size - num_groups)))

\* the groupings _compute_f_stat has been applied to, with the value it returned
Evaluated ==
    IF ~Computed THEN {}
    ELSE {<<grouping, stat>>} \cup (IF i > 0 THEN {<<perm_grouping, perm_stat>>} ELSE {})

(***************************************************************************)
(* C1: for 2 <= a < N and s_T = sum(distances^2)/N, _compute_f_stat        *)
(* returns ((s_T - s_W)/(a - 1)) / (s_W/(N - a)), where s_W sums, over the *)
(* group codes, the squared distances of the unordered pairs of objects    *)
(* both in the group divided by the size of the group.                     *)
(***************************************************************************)
C1_FStatFormula ==
    (num_groups >= 2 /\ num_groups < sample_size) =>
        \A e \in Evaluated :
            /\ s_T = DirectST
            /\ e[2] = DirectF(e[1])

C1_Witness ==
    /\ pc = "done" /\ i = 2
    /\ sample_size = 4 /\ num_groups = 3
    /\ IsFinite(stat) /\ stat.n > 0 /\ stat # Flt(1)
    /\ perm_stat # stat
    /\ stat = DirectF(grouping)

(***************************************************************************)
(* C9: grouping_tri[k] is the group code g exactly when rows[k] and        *)
(* cols[k] are both coded g, and -1 otherwise; so code i labels            *)
(* n_i(n_i-1)/2 entries, and the grouping matrix is symmetric with each    *)
(* object's own code on the diagonal.                                      *)
(***************************************************************************)
TriLabelsRight(g) ==
    LET gm  == GroupingMatrix(sample_size, num_groups, g)
        tri == GroupingTri(gm, tri_idxs)
        rows == tri_idxs[1]
        cols == tri_idxs[2]
    IN  /\ Len(tri) = Len(rows)
        /\ \A k \in DOMAIN rows :
              /\ rows[k] < cols[k]
              /\ tri[k] = (IF g[rows[k]] = g[cols[k]] THEN g[rows[k]] ELSE -1)
        /\ \A c \in Codes :
              2 * Cardinality({k \in DOMAIN tri : tri[k] = c})
                 = Cardinality(Members(g, c)) * (Cardinality(Members(g, c)) - 1)
        /\ \A x, y \in DOMAIN g : gm[<<x, y>>] = gm[<<y, x>>]
        /\ \A x \in DOMAIN g : gm[<<x, x>>] = g[x]

C9_GroupingTri == \A e \in Evaluated : TriLabelsRight(e[1])

C9_Witness ==
    /\ pc = "trials" /\ i = 1
    /\ sample_size = 4 /\ num_groups = 2
    /\ perm_grouping # grouping
    /\ Cardinality(Members(perm_grouping, 0)) = 3
    /\ TriLabelsRight(perm_grouping)

RECURSIVE SumSizes(_, _)
SumSizes(sizes, c) == IF c \notin DOMAIN sizes THEN 0 ELSE sizes[c] + SumSizes(sizes, c + 1)

(***************************************************************************)
(* C10: group_sizes, computed once from the observed grouping, is right    *)
(* for every trial: a permuted grouping holds the same multiset of codes,  *)
(* every size is >= 1 and the sizes sum to N; a trial never modifies the   *)
(* observed grouping, distances, tri_idxs, group_sizes or s_T.             *)
(***************************************************************************)
GroupSizesRight ==
    Computed =>
        /\ DOMAIN group_sizes = Codes
        /\ \A c \in Codes : group_sizes[c] >= 1
        /\ SumSizes(group_sizes, 0) = sample_size
        /\ \A e \in Evaluated :
              /\ DOMAIN e[1] = 0..(sample_size - 1)
              /\ \A c \in Codes : Cardinality(Members(e[1], c)) = group_sizes[c]

TrialKeepsContext ==
    (pc = "trials") =>
        UNCHANGED << grouping, distances, tri_idxs, group_sizes, s_T,
                     sample_size, num_groups, distance_matrix >>

C10_GroupSizesStable == []GroupSizesRight /\ [][TrialKeepsContext]_vars

C10_Witness ==
    /\ pc = "trials" /\ i = 2
    /\ sample_size = 4 /\ num_groups = 3
    /\ perm_grouping # grouping
    /\ group_sizes = Bincount(perm_grouping)

(***************************************************************************)
(* C2: for permutations = P > 0, after exactly P trials the p-value is     *)
(* (count + 1)/(P + 1), count being the number of trials whose permuted    *)
(* pseudo-F is >= the observed one (ties counted); so the p-value lies in  *)
(* [1/(P+1), 1] and is never 0.                                            *)
(***************************************************************************)
TrialCounts ==
    (i' # i) =>
        /\ i' = i + 1
        /\ i' <= permutations
        /\ count' = count + (IF FGE(DirectF(perm_grouping'), stat) THEN 1 ELSE 0)

PValueRight ==
    (pc = "done" /\ permutations > 0) =>
        /\ i = permutations
        /\ calls = permutations + 1
        /\ count \in 0..permutations
        /\ p_value = Rat(count + 1, permutations + 1)
        /\ result.p_value = p_value
        /\ FGE(p_value, Rat(1, permutations + 1))
        /\ FGE(Flt(1), p_value)
        /\ p_value # Flt(0)

C3_NoPermutations ==
    (permutations = 0) =>
        /\ i = 0 /\ count = 0 /\ perm_grouping = <<>> /\ perm_stat = None
        /\ calls <= 1
        /\ (pc = "error") => ~PreprocessOk(num_objects, raw_grouping)
        /\ (pc = "done") =>
              /\ calls = 1
              /\ p_value = NaN
              /\ result.p_value = NaN
              /\ result.statistic = DirectF(grouping)
              /\ result.permutations = 0

C3_Witness ==
    /\ pc = "done" /\ permutations = 0
    /\ result.p_value = NaN
    /\ IsFinite(result.statistic) /\ result.statistic.n > 0
    /\ sample_size = 4

(***************************************************************************)
(* C4: a negative permutations count ends in an error raised before any    *)
(* pseudo-F statistic, observed or permuted, has been computed; no result  *)
(* record is produced.                                                     *)
(***************************************************************************)
NegativeNeverComputes ==
    (permutations < 0) =>
        /\ calls = 0 /\ stat = None /\ perm_stat = None /\ i = 0
        /\ result = None /\ p_value = None
        /\ pc \in {"start", "preprocessed", "ready", "error"}

NegativeRejected ==
    (permutations < 0 /\ pc = "ready") => pc' = "error"

C4_NegativePermutations == []NegativeNeverComputes /\ [][NegativeRejected]_vars

C4_Witness ==
    /\ pc = "error" /\ permutations < 0
    /\ PreprocessOk(num_objects, raw_grouping)
    /\ group_sizes # <<>>
    /\ calls = 0

ValidInput == num_groups >= 2 /\ num_groups < sample_size

(***************************************************************************)
(* C5 as stated: for every valid input (N greater than the number of       *)
(* groups, at least 2 groups) the pseudo-F returned is a non-negative      *)
(* real, for the observed grouping and for every permutation of it.  Read  *)
(* in its weakest form: the value returned is never negative.              *)
(***************************************************************************)
C5_Original ==
    ValidInput => \A e \in Evaluated : e[2] # NegInf /\ ~(IsFinite(e[2]) /\ e[2].n < 0)

(***************************************************************************)
(* C5 amended: for every valid input s_W is a non-negative real and the    *)
(* pseudo-F has the sign of s_T - s_W: it is a non-negative real exactly   *)
(* when s_W > 0 and s_T >= s_W, a negative real exactly when s_W > 0 and   *)
(* s_T < s_W, and +inf or NaN (no real) exactly when s_W = 0.              *)
(***************************************************************************)
C5_SignOfF ==
    ValidInput =>
        \A e \in Evaluated :
            LET s_within == DirectSW(e[1])
                f == e[2]
            IN  /\ IsFinite(s_within) /\ s_within.n >= 0
                /\ (IsFinite(f) /\ f.n >= 0) <=> (s_within.n > 0 /\ FGE(DirectST, s_within))
                /\ (IsFinite(f) /\ f.n < 0) <=> (s_within.n > 0 /\ ~FGE(DirectST, s_within))
                /\ (~IsFinite(f)) <=> (s_within.n = 0)
                /\ (~IsFinite(f)) => f \in {PosInf, NaN}

\* a negative pseudo-F from a valid input
C5_Witness ==
    /\ pc = "done" /\ ValidInput
    /\ IsFinite(stat) /\ stat.n < 0
    /\ i > 0 /\ IsFinite(perm_stat) /\ perm_stat.n > 0

(***************************************************************************)
(* C6 as stated: once the inputs have passed validation, the divisors      *)
(* num_groups - 1, sample_size - num_groups, every group_sizes[i] and the  *)
(* within-group term s_W/(sample_size - num_groups) are all non-zero, so   *)
(* the observed statistic is always a defined value.  Stated here for the  *)
(* inputs with fewer groups than objects only, where sample_size -         *)
(* num_groups is indeed non-zero.                                          *)
(***************************************************************************)
WithinTerm ==
    FDiv(WithinSS(sample_size, num_groups, tri_idxs, distances, group_sizes, grouping),
         Flt(sample_size - num_groups))

NonZero(x) == IsFinite(x) /\ x.n # 0

C6_Original ==
    (Computed /\ ValidInput) =>
        /\ num_groups - 1 # 0
        /\ sample_size - num_groups # 0
        /\ \A c \in DOMAIN group_sizes : group_sizes[c] # 0
        /\ NonZero(WithinTerm)
        /\ IsFinite(stat)

(***************************************************************************)
(* C6 amended: once the inputs have passed validation the computation of   *)
(* the observed statistic raises no error, and num_groups - 1 and every    *)
(* group_sizes[i] are non-zero; sample_size - num_groups is non-zero       *)
(* exactly when some group has two objects, and the within-group term is   *)
(* non-zero exactly when some two objects of one group are at a non-zero   *)
(* distance; the statistic is a real number exactly in that case, and      *)
(* +inf or NaN otherwise.                                                  *)
(***************************************************************************)
C6_Divisors ==
    /\ (pc = "error" /\ PreprocessOk(num_objects, raw_grouping)) => permutations < 0
    /\ Computed =>
        /\ num_groups - 1 >= 1
        /\ DOMAIN group_sizes = Codes
        /\ \A c \in Codes : group_sizes[c] >= 1
        /\ (sample_size - num_groups # 0) <=>
              (\E c \in Codes : Cardinality(Members(grouping, c)) >= 2)
        /\ NonZero(WithinTerm) <=>
              (\E c \in Codes : \E cell \in WithinPairs(grouping, c) :
                    distance_matrix[cell] # 0)
        /\ IsFinite(stat) <=> NonZero(WithinTerm)
        /\ (~IsFinite(stat)) => stat \in {PosInf, NaN}

\* validated input, sample_size > num_groups, and yet no real statistic
C6_Witness ==
    /\ pc = "done" /\ ValidInput
    /\ stat = PosInf
    /\ ~NonZero(WithinTerm)

AllPerms == Permutations(DOMAIN grouping)

\* the permutations of the objects whose pseudo-F reaches the observed one
ExtremePerms ==
    {pi \in AllPerms : FGE(DirectF([x \in DOMAIN grouping |-> grouping[pi[x]]]), stat)}

(***************************************************************************)
(* C7 as stated: for [A, A, B, B] with distances 1 within and 10 between   *)
(* the groups, the pseudo-F is well above 1 and almost no permutation of   *)
(* the grouping yields a pseudo-F >= the observed one (a p-value near      *)
(* 1/1000 with 999 permutations); "almost no" is read as at most one       *)
(* permutation in a hundred.                                               *)
(***************************************************************************)
C7_Original ==
    Computed =>
        /\ FGT(stat, Flt(1))
        /\ 100 * Cardinality(ExtremePerms) <= Cardinality(AllPerms)

(***************************************************************************)
(* C7 amended: for that input the pseudo-F is 199, and exactly one third   *)
(* of the permutations of the grouping (those giving [A, A, B, B] or       *)
(* [B, B, A, A]) yield a pseudo-F equal to the observed one, the others    *)
(* yield 1/100; so each trial counts with probability 1/3 and the p-value  *)
(* (count + 1)/(P + 1) is only bounded below by 1/(P + 1), not near it.    *)
(***************************************************************************)
C7_Scenario ==
    Computed =>
        /\ stat = Flt(199)
        /\ 3 * Cardinality(ExtremePerms) = Cardinality(AllPerms)
        /\ (i > 0) =>
              IF perm_grouping = grouping
                 \/ perm_grouping = [x \in DOMAIN grouping |-> 1 - grouping[x]]
              THEN perm_stat = stat
              ELSE perm_stat = Rat(1, 100)
        /\ (pc = "done" /\ permutations > 0) =>
              /\ p_value = Rat(count + 1, permutations + 1)
              /\ FGE(p_value, Rat(1, permutations + 1))

\* every trial of a run reached the observed statistic: the p-value is 1
C7_Witness ==
    /\ pc = "done" /\ permutations = ScenarioPerms
    /\ count = permutations /\ p_value = Flt(1)
    /\ stat = Flt(199)
    /\ perm_grouping # grouping

AllEqual ==
    \A cell \in UpperCells(num_objects) : distance_matrix[cell] = distance_matrix[<<0, 1>>]

(***************************************************************************)
(* C8 as stated: when all pairwise distances are equal the computation     *)
(* does not raise for any grouping, the permuted statistics are not        *)
(* smaller than the observed one, and the p-value is not at the lower      *)
(* bound 1/(P+1).  Stated here for the inputs with fewer groups than       *)
(* objects only.                                                           *)
(***************************************************************************)
C8_Original ==
    (AllEqual /\ Len(raw_grouping) = num_objects
              /\ Cardinality(Range(raw_grouping)) < num_objects) =>
        /\ (pc = "error") => (~PreprocessOk(num_objects, raw_grouping) \/ permutations < 0)
        /\ \A e \in Evaluated : ~FGT(stat, e[2])
        /\ (pc = "done" /\ permutations > 0) => FGT(p_value, Rat(1, permutations + 1))

(***************************************************************************)
(* C8 amended: when all pairwise distances are equal the computation does  *)
(* not raise for any grouping.  If the common distance is positive and     *)
(* there are fewer groups than objects, the pseudo-F is 1 for the observed *)
(* and for every permuted grouping (in exact arithmetic), every trial      *)
(* counts and the p-value is 1.  If the common distance is 0, or every     *)
(* object is alone in its group, the pseudo-F is NaN for every grouping,   *)
(* no trial counts and the p-value is exactly the lower bound 1/(P+1).     *)
(***************************************************************************)
C8_NullCase ==
    AllEqual =>
        /\ (pc = "error") => (~PreprocessOk(num_objects, raw_grouping) \/ permutations < 0)
        /\ Computed =>
              IF distance_matrix[<<0, 1>>] > 0 /\ num_groups < sample_size
              THEN /\ \A e \in Evaluated : e[2] = Flt(1)
                   /\ count = i
                   /\ (pc = "done" /\ permutations > 0) => p_value = Flt(1)
              ELSE /\ \A e \in Evaluated : e[2] = NaN
                   /\ count = 0
                   /\ (pc = "done" /\ permutations > 0) =>
                         p_value = Rat(1, permutations + 1)

C8_Witness ==
    /\ AllEqual /\ distance_matrix[<<0, 1>>] = 1
    /\ pc = "done" /\ permutations = 2 /\ count = 2
    /\ sample_size = 4 /\ num_groups = 3
    /\ perm_grouping # grouping
    /\ p_value = Flt(1)

====
